---- MODULE Spec2Model ----
(***************************************************************************)
(* Authentication and request-authorization core of the FastAPI template:  *)
(* password hashing (app/core/security.py), token issue and validation     *)
(* (security.py, app/core/deps.py), the user CRUD (app/crud/user.py), the  *)
(* auth and users routers (app/api/v1) and the request-logging middleware  *)
(* (app/middleware/LoggingMiddleware.py).                                  *)
(*                                                                         *)
(* Time is counted in whole seconds, as python-jose does when it encodes   *)
(* and checks the exp claim.                                               *)
(***************************************************************************)
EXTENDS Integers, Sequences, FiniteSets, TLC

VARIABLES
    users,      \* the users table: users[i] is the row whose id is i
    now,        \* the wall clock (datetime.utcnow()), in seconds
    held,       \* the token a client kept from a call of create_access_token
    resp,       \* the latest request and the response it got
    log,        \* the records the loggers were handed by the latest request
    students,   \* the students table: a set of rows
    inflight,   \* inflight[r]: the request that task r is serving, if any
    sessions    \* the database sessions that are open

reqvars == <<students, inflight, sessions>>

vars == <<users, now, held, resp, log, students, inflight, sessions>>

----------------------------------------------------------------------------
(* Bounds of the model *)

MaxUsers == 2
MaxTicks == 1
MaxSalt  == 1
MaxOver  == 1
MaxReqs  == 2
MaxStudents == 1
MaxRowId == 2

(* Program constants *)

ACCESS_TOKEN_EXPIRE_MINUTES == 30
BcryptMaxBytes == 72

SECRET_KEY  == "your-secret-key-here"
AttackerKey == "some-other-key"

Emails    == {"a@x.com", "b@x.com"}
FullNames == {"Test User"}

\* Passwords are strings of code points; these two are short ASCII ones.
Pw1 == <<112, 119, 49>>
Pw2 == <<112, 119, 50>>
Passwords  == {Pw1, Pw2}
NoPassword == <<-1>>

AppEnvs == {"development", "production"}

Min(a, b) == IF a < b THEN a ELSE b

----------------------------------------------------------------------------
(* app/core/security.py: password hashing *)

\* str.encode("utf-8") for code points below 2048: one byte below 128,
\* two bytes otherwise.
RECURSIVE Utf8(_)
Utf8(s) ==
    IF s = <<>> THEN <<>>
    ELSE LET c == Head(s)
         IN  (IF c < 128 THEN <<c>>
              ELSE <<192 + (c \div 64), 128 + (c % 64)>>) \o Utf8(Tail(s))

\* password.encode("utf-8")[:72]
Truncate72(bytes) == SubSeq(bytes, 1, Min(Len(bytes), BcryptMaxBytes))

\* bcrypt.hashpw(password_bytes, salt): a self-describing hash that embeds
\* the salt; the digest is modelled as the pair it is a function of.
bcrypt_hashpw(password_bytes, salt) ==
    [scheme |-> "2b", salt |-> salt, digest |-> password_bytes]

\* bcrypt.checkpw: re-hash with the embedded salt and compare; raises
\* ValueError on a string that is not a bcrypt hash.
bcrypt_wellformed(hashed) ==
    /\ DOMAIN hashed = {"scheme", "salt", "digest"}
    /\ hashed.scheme = "2b"

bcrypt_checkpw(password_bytes, hashed) ==
    bcrypt_hashpw(password_bytes, hashed.salt) = hashed

\* The string a stored hash is, as code points: "$2b$", the salt and the
\* digest for a bcrypt hash; a value that is no bcrypt hash is the string
\* it carries.
hash_string(hashed) ==
    IF hashed.scheme = "2b"
    THEN <<36, 50, 98, 36, hashed.salt>> \o hashed.digest
    ELSE hashed.digest

\* get_password_hash that returns the password as it is.
get_password_hash_plain(password, salt) ==
    [scheme |-> "plain", salt |-> salt, digest |-> Utf8(password)]

get_password_hash(password, salt) ==
    bcrypt_hashpw(Truncate72(Utf8(password)), salt)

\* verify_password that hands bcrypt the whole encoding, with no cut.
verify_password_untruncated(plain_password, hashed_password) ==
    IF bcrypt_wellformed(hashed_password)
    THEN bcrypt_checkpw(Utf8(plain_password), hashed_password)
    ELSE FALSE

\* verify_password that accepts any password for a well-formed hash.
verify_password_any(plain_password, hashed_password) ==
    bcrypt_wellformed(hashed_password)

verify_password(plain_password, hashed_password) ==
    IF bcrypt_wellformed(hashed_password)
    THEN bcrypt_checkpw(Truncate72(Utf8(plain_password)), hashed_password)
    ELSE FALSE

\* bcrypt.checkpw as a call: the value it returns, or the exception it
\* raises (ValueError, "Invalid salt") on a string that is no bcrypt hash.
checkpw_call(password_bytes, hashed) ==
    IF bcrypt_wellformed(hashed)
    THEN [raised |-> "", value |-> bcrypt_checkpw(password_bytes, hashed)]
    ELSE [raised |-> "ValueError", value |-> FALSE]

\* verify_password without its try/except.
verify_password_call_uncaught(plain_password, hashed_password) ==
    checkpw_call(Truncate72(Utf8(plain_password)), hashed_password)

\* verify_password as a call: "except Exception: return False" turns
\* whatever checkpw raises into False.
verify_password_call(plain_password, hashed_password) ==
    LET r == checkpw_call(Truncate72(Utf8(plain_password)), hashed_password)
    IN  IF r.raised # "" THEN [raised |-> "", value |-> FALSE] ELSE r

Salts == 1..MaxSalt

----------------------------------------------------------------------------
(* app/core/security.py, app/core/deps.py: tokens *)

NoSub   == "~nosub"
NoExp   == -1
NoDelta == -1

ExpireSeconds == ACCESS_TOKEN_EXPIRE_MINUTES * 60

\* HS256 signature over the claims: a function of the key and the claims.
Sign(key, sub, exp) == [key |-> key, sub |-> sub, exp |-> exp]

\* jwt.encode(to_encode, key, algorithm="HS256")
jwt_encode(sub, exp, key) ==
    [form |-> "jwt", sub |-> sub, exp |-> exp, sig |-> Sign(key, sub, exp)]

Garbage == [form |-> "garbage"]
NoToken == [form |-> "none"]

\* create_access_token that subtracts the lifetime instead of adding it.
create_access_token_backdated(sub, expires_delta, t) ==
    LET expire == IF expires_delta # NoDelta /\ expires_delta # 0
                  THEN t - expires_delta
                  ELSE t - ExpireSeconds
    IN  jwt_encode(sub, expire, SECRET_KEY)

\* create_access_token(data, expires_delta): "if expires_delta:" tests the
\* truth value of the timedelta, and timedelta(0) is false.
create_access_token(sub, expires_delta, t) ==
    LET expire == IF expires_delta # NoDelta /\ expires_delta # 0
                  THEN t + expires_delta
                  ELSE t + ExpireSeconds
    IN  jwt_encode(sub, expire, SECRET_KEY)

\* jwt.decode with options={"verify_signature": False}.
jwt_decode_unverified(token, key, t) ==
    IF token.form # "jwt" THEN [ok |-> FALSE, error |-> "JWTError"]
    ELSE IF token.exp # NoExp /\ token.exp < t
         THEN [ok |-> FALSE, error |-> "ExpiredSignatureError"]
    ELSE [ok |-> TRUE, sub |-> token.sub, exp |-> token.exp]

\* jwt.decode(token, key, algorithms=["HS256"]) of python-jose: the
\* structure, then the signature, then the exp claim when there is one;
\* _validate_exp raises ExpiredSignatureError when exp < now.
jwt_decode(token, key, t) ==
    IF token.form # "jwt" THEN [ok |-> FALSE, error |-> "JWTError"]
    ELSE IF token.sig # Sign(key, token.sub, token.exp)
         THEN [ok |-> FALSE, error |-> "JWTError"]
    ELSE IF token.exp # NoExp /\ token.exp < t
         THEN [ok |-> FALSE, error |-> "ExpiredSignatureError"]
    ELSE [ok |-> TRUE, sub |-> token.sub, exp |-> token.exp]

----------------------------------------------------------------------------
(* app/crud/user.py *)

UserIds == 1..Len(users)

\* select(User).where(User.email == email), scalar_one_or_none(): 0 when
\* there is no such row.
get_user_by_email(tbl, email) ==
    IF \E i \in 1..Len(tbl) : tbl[i].email = email
    THEN CHOOSE i \in 1..Len(tbl) : tbl[i].email = email
    ELSE 0

get_user(tbl, user_id) ==
    IF user_id \in 1..Len(tbl) THEN user_id ELSE 0

\* authenticate_user: the id of the account, or 0 for None.
authenticate_user(tbl, email, password) ==
    LET u == get_user_by_email(tbl, email)
    IN  IF u = 0 THEN 0
        ELSE IF ~verify_password(password, tbl[u].hashed_password) THEN 0
        ELSE u

\* authenticate_user as a call: [raised, user], user being the id of the
\* account returned, or 0 for None; an exception of verify_password is
\* not caught here.
authenticate_user_call(tbl, email, password) ==
    LET u == get_user_by_email(tbl, email)
    IN  IF u = 0 THEN [raised |-> "", user |-> 0]
        ELSE LET v == verify_password_call(password, tbl[u].hashed_password)
             IN  IF v.raised # "" THEN [raised |-> v.raised, user |-> 0]
                 ELSE IF ~v.value THEN [raised |-> "", user |-> 0]
                 ELSE [raised |-> "", user |-> u]

----------------------------------------------------------------------------
(* app/core/logger.py, app/middleware/LoggingMiddleware.py *)

LevelNo(level) ==
    CASE level = "DEBUG"   -> 10
      [] level = "INFO"    -> 20
      [] level = "WARNING" -> 30
      [] level = "ERROR"   -> 40

\* LogConfig.get_log_level
get_log_level(env) == IF env = "production" THEN "INFO" ELSE "DEBUG"

LogRec(level, msg, args) == [level |-> level, msg |-> msg, args |-> args]

\* _setup: the root logger and its handlers carry the level of the
\* environment; a record below it is not written.
Written(env, records) ==
    SelectSeq(records,
              LAMBDA r : LevelNo(r.level) >= LevelNo(get_log_level(env)))

NoBody == [empty |-> TRUE]

\* The "Request body: ..." record of dispatch: the decoded body (the
\* bodies of this model are far shorter than the 500 characters kept),
\* logged for every POST, PUT and PATCH that has one.
body_records(method, body) ==
    IF method \in {"POST", "PUT", "PATCH"} /\ body # NoBody
    THEN <<LogRec("DEBUG", "Request body", [body |-> body])>>
    ELSE <<>>

\* LoggingMiddleware.dispatch around a handler that produced `out`:
\* out.logs are the handler's own records, out.response the response, and
\* out.raised says that an exception left the application (the server
\* then answers 500). The result is every record handed to the loggers;
\* Written says which of them a given environment writes.
dispatch(method, path, body, out) ==
       (<<LogRec("INFO", "Incoming request", [method |-> method, path |-> path])>>
        \o body_records(method, body)
        \o out.logs
        \o (IF out.raised
            THEN <<LogRec("ERROR", "Request failed",
                          [error |-> out.response.body.detail])>>
            ELSE <<LogRec("INFO", "request",
                          [method |-> method, path |-> path,
                           status_code |-> out.response.status])>>))

\* The passwords a log record spells out.
PasswordsIn(rec) ==
    IF "body" \in DOMAIN rec.args /\ "password" \in DOMAIN rec.args.body
    THEN {rec.args.body.password}
    ELSE {}

----------------------------------------------------------------------------
(* Responses: app/models/response.py, app/schemas, and the response_model *)
(* of each route.                                                           *)

NoData == [null |-> TRUE]

\* R.fail / R.ok / success: the R envelope.
R_fail(msg, code) == [code |-> code, msg |-> msg, data |-> NoData]
R_ok(data)        == [code |-> 200, msg |-> "ok", data |-> data]
success(data)     == R_ok(data)

\* The response models: the fields a response must have, and the optional
\* ones.
Token   == [required |-> {"access_token", "token_type"}, optional |-> {}]
UserOut == [required |-> {"email", "id", "is_active", "created_at"},
            optional |-> {"full_name"}]

Http(status, body, headers) ==
    [status |-> status, body |-> body, headers |-> headers]

HTTPException(status_code, detail, headers) ==
    [logs |-> <<>>, raised |-> FALSE,
     response |-> Http(status_code, [detail |-> detail], headers)]

\* An exception that no handler catches: the server answers 500.
ServerError(exc) ==
    [logs |-> <<>>, raised |-> TRUE,
     response |-> Http(500, [detail |-> exc], {})]

\* response_model=model on a route: the returned object is validated
\* against the model (its attributes are read, from_attributes) and cut
\* down to the model's fields; an object that lacks a required field
\* raises ResponseValidationError.
serialize_response(model, content, logs) ==
    IF model.required \subseteq DOMAIN content
    THEN [logs |-> logs, raised |-> FALSE,
          response |-> Http(200,
              [f \in (model.required \cup model.optional) \cap DOMAIN content
                  |-> content[f]], {})]
    ELSE [ServerError("ResponseValidationError") EXCEPT !.logs = logs]

----------------------------------------------------------------------------
(* app/api/v1/auth.py *)

\* login that tells an unknown email from a wrong password.
login_leaky(tbl, username, password, t) ==
    LET user == authenticate_user(tbl, username, password)
    IN  IF get_user_by_email(tbl, username) = 0
        THEN HTTPException(404, "no such user", {})
        ELSE IF user = 0
        THEN serialize_response(Token, R_fail("bad email or password", 400),
                 <<LogRec("WARNING", "login failed", [email |-> username])>>)
        ELSE serialize_response(Token,
                 [access_token |->
                      create_access_token(tbl[user].email, ExpireSeconds, t),
                  token_type |-> "bearer",
                  user |-> tbl[user]],
                 <<LogRec("INFO", "login succeeded",
                          [email |-> tbl[user].email, id |-> user])>>)

\* login: the handler and its response_model=Token.
login(tbl, username, password, t) ==
    LET user == authenticate_user(tbl, username, password)
    IN  IF user = 0
        THEN serialize_response(Token, R_fail("bad email or password", 400),
                 <<LogRec("WARNING", "login failed", [email |-> username])>>)
        ELSE serialize_response(Token,
                 [access_token |->
                      create_access_token(tbl[user].email, ExpireSeconds, t),
                  token_type |-> "bearer",
                  user |-> tbl[user]],
                 <<LogRec("INFO", "login succeeded",
                          [email |-> tbl[user].email, id |-> user])>>)

\* login that deactivates the account after a wrong password.
login_table_lockout(tbl, username, password) ==
    LET u == get_user_by_email(tbl, username)
    IN  IF u # 0 /\ authenticate_user(tbl, username, password) = 0
        THEN [tbl EXCEPT ![u] = [@ EXCEPT !.is_active = FALSE]]
        ELSE tbl

\* The users table after login: the handler and authenticate_user only
\* select; no row is added or changed and nothing is committed, whether
\* the login succeeds or not.
login_table(tbl, username, password) == tbl

\* User(email=..., full_name=..., hashed_password=...) once flushed: the
\* id is the next row id, is_active takes its default. The timestamp is a
\* server default that no handler reads; it is carried as an opaque value.
NewUser(tbl, email, full_name, hashed_password) ==
    [id |-> Len(tbl) + 1, email |-> email, full_name |-> full_name,
     hashed_password |-> hashed_password, is_active |-> TRUE,
     created_at |-> "func.now()"]

\* create_user without the look-up of the email.
create_user_unchecked(tbl, email, password, full_name, salt) ==
    Append(tbl, NewUser(tbl, email, full_name,
                        get_password_hash(password, salt)))

\* create_user: the table after the call; unchanged when the email is
\* taken (HTTPException 400).
create_user(tbl, email, password, full_name, salt) ==
    IF get_user_by_email(tbl, email) # 0 THEN tbl
    ELSE Append(tbl, NewUser(tbl, email, full_name,
                             get_password_hash(password, salt)))

\* register: the handler and its response_model=UserOut.
register(tbl, email, password, full_name, salt) ==
    IF get_user_by_email(tbl, email) # 0
    THEN HTTPException(400, "email already registered", {})
    ELSE LET tbl2 == create_user(tbl, email, password, full_name, salt)
             user == tbl2[Len(tbl2)]
         IN  serialize_response(UserOut, success(user),
                 <<LogRec("INFO", "user registered",
                          [email |-> user.email, id |-> user.id])>>)

Login(username, password) ==
    LET out == login(users, username, password, now)
        body == [username |-> username, password |-> password]
    IN  /\ resp' = [op |-> "login", username |-> username,
                    known |-> get_user_by_email(users, username) # 0,
                    auth |-> authenticate_user(users, username, password) # 0,
                    status |-> out.response.status,
                    body |-> out.response.body,
                    headers |-> out.response.headers]
        /\ log' = dispatch("POST", "/auth/login", body, out)
        /\ held' = IF out.response.status = 200
                   THEN [token |-> out.response.body.access_token,
                         uid |-> authenticate_user(users, username, password),
                         iat |-> now, delta |-> ExpireSeconds]
                   ELSE held
        /\ users' = login_table(users, username, password)
        /\ UNCHANGED <<now, reqvars>>

Register(email, password, full_name, salt) ==
    LET out == register(users, email, password, full_name, salt)
        body == [email |-> email, password |-> password,
                 full_name |-> full_name]
    IN  /\ get_user_by_email(users, email) = 0 => Len(users) < MaxUsers
        /\ users' = create_user(users, email, password, full_name, salt)
        /\ resp' = [op |-> "register", email |-> email,
                    created |-> get_user_by_email(users, email) = 0,
                    status |-> out.response.status,
                    body |-> out.response.body,
                    headers |-> out.response.headers]
        /\ log' = dispatch("POST", "/auth/register", body, out)
        /\ UNCHANGED <<now, held, reqvars>>

----------------------------------------------------------------------------
(* app/core/deps.py *)

Bearer == {<<"WWW-Authenticate", "Bearer">>}

credentials_exception ==
    HTTPException(401, "Could not validate credentials", Bearer)

\* reusable_oauth2 (OAuth2PasswordBearer): a request without a bearer
\* Authorization header is refused before get_current_user runs.
not_authenticated == HTTPException(401, "Not authenticated", Bearer)

\* get_current_user with a "user not found" error of its own.
get_current_user_404(tbl, token, t) ==
    LET payload == jwt_decode(token, SECRET_KEY, t)
    IN  IF ~payload.ok THEN [ok |-> FALSE, exc |-> credentials_exception]
        ELSE IF payload.sub = NoSub
             THEN [ok |-> FALSE, exc |-> credentials_exception]
        ELSE LET user == get_user_by_email(tbl, payload.sub)
             IN  IF user = 0
                 THEN [ok |-> FALSE,
                       exc |-> HTTPException(404, "user not found", {})]
                 ELSE [ok |-> TRUE, user |-> user]

\* get_current_user: [ok |-> TRUE, user |-> id], or the exception raised.
get_current_user(tbl, token, t) ==
    LET payload == jwt_decode(token, SECRET_KEY, t)
    IN  IF ~payload.ok THEN [ok |-> FALSE, exc |-> credentials_exception]
        ELSE IF payload.sub = NoSub
             THEN [ok |-> FALSE, exc |-> credentials_exception]
        ELSE LET user == get_user_by_email(tbl, payload.sub)
             IN  IF user = 0
                 THEN [ok |-> FALSE, exc |-> credentials_exception]
                 ELSE [ok |-> TRUE, user |-> user]

\* Depends(get_current_user) of a protected route, behind reusable_oauth2.
current_user_dep(tbl, token, t) ==
    IF token = NoToken THEN [ok |-> FALSE, exc |-> not_authenticated]
    ELSE get_current_user(tbl, token, t)

----------------------------------------------------------------------------
(* app/crud/user.py: update_user; app/api/v1/users.py *)

\* update_user that sets the email and leaves the stored hash alone.
update_user_keeps_password(tbl, user, email, password, salt) ==
    IF password = NoPassword
    THEN [ok |-> FALSE, exc |-> "AttributeError", tbl |-> tbl]
    ELSE IF \E i \in 1..Len(tbl) : i # user /\ tbl[i].email = email
         THEN [ok |-> FALSE, exc |-> "IntegrityError", tbl |-> tbl]
    ELSE [ok |-> TRUE, exc |-> "",
          tbl |-> [tbl EXCEPT ![user] = [@ EXCEPT !.email = email]]]

\* update_user: UserUpdate has the required fields email and password, so
\* model_dump(exclude_unset=True) holds both; the password is re-hashed and
\* every field is set on the row. [ok, tbl]: the commit fails
\* (IntegrityError) when another row holds the email, and hashing a null
\* password raises AttributeError; neither changes the table.
update_user(tbl, user, email, password, salt) ==
    IF password = NoPassword
    THEN [ok |-> FALSE, exc |-> "AttributeError", tbl |-> tbl]
    ELSE IF \E i \in 1..Len(tbl) : i # user /\ tbl[i].email = email
         THEN [ok |-> FALSE, exc |-> "IntegrityError", tbl |-> tbl]
    ELSE [ok |-> TRUE, exc |-> "",
          tbl |-> [tbl EXCEPT ![user] =
                      [@ EXCEPT !.email = email,
                                !.hashed_password =
                                    get_password_hash(password, salt)]]]

\* update_user_info that lets any authenticated caller update any account.
may_update_any(current_user_id, user_id) == TRUE

\* update_user_info: "if current_user.id != user_id" raises the 403; the
\* caller may update the account of its own id only.
may_update(current_user_id, user_id) == current_user_id = user_id

\* read_users_me and its response_model=UserOut.
read_users_me(tbl, token, t) ==
    LET cu == current_user_dep(tbl, token, t)
    IN  IF ~cu.ok THEN cu.exc
        ELSE serialize_response(UserOut, tbl[cu.user],
                 <<LogRec("INFO", "read current user",
                          [email |-> tbl[cu.user].email, id |-> cu.user])>>)

\* update_user_info and its response_model=UserOut: [out, tbl].
update_user_info(tbl, token, user_id, email, password, salt, t) ==
    LET cu == current_user_dep(tbl, token, t)
    IN  IF ~cu.ok THEN [out |-> cu.exc, tbl |-> tbl]
        ELSE IF ~may_update(cu.user, user_id)
        THEN [out |-> [HTTPException(403, "not allowed to update this user", {})
                         EXCEPT !.logs =
                           <<LogRec("WARNING", "update refused",
                                    [email |-> tbl[cu.user].email,
                                     id |-> cu.user, user_id |-> user_id])>>],
              tbl |-> tbl]
        ELSE IF get_user(tbl, user_id) = 0
        THEN [out |-> [HTTPException(404, "user not found", {})
                         EXCEPT !.logs =
                           <<LogRec("WARNING", "update failed",
                                    [user_id |-> user_id])>>],
              tbl |-> tbl]
        ELSE LET upd == update_user(tbl, user_id, email, password, salt)
             IN  IF ~upd.ok THEN [out |-> ServerError(upd.exc), tbl |-> tbl]
                 ELSE [out |-> serialize_response(UserOut, upd.tbl[user_id],
                                 <<LogRec("INFO", "user updated",
                                          [email |-> upd.tbl[user_id].email,
                                           id |-> user_id])>>),
                       tbl |-> upd.tbl]

\* The tokens a client may present: the one it holds, that one with its
\* subject rewritten, none, a string that is no token, tokens signed with
\* the server's key for one email with an exp around the current time or
\* none, one without a subject, and one signed with another key.
Subjects == Emails \cup {NoSub}

ForgedSub == "a@x.com"

NearExps == {e \in {now - 1, now} : e >= 0} \cup {NoExp}

\* Where a token's exp lies with respect to the clock.
ExpRel(token, t) ==
    IF token.form # "jwt" \/ token.exp = NoExp THEN "absent"
    ELSE IF token.exp < t THEN "past"
    ELSE IF token.exp = t THEN "now"
    ELSE "future"

Tampered(token) ==
    IF token.form = "jwt"
    THEN {[token EXCEPT !.sub = s] : s \in Emails \ {token.sub}}
    ELSE {}

PresentableTokens ==
    {held.token, NoToken, Garbage}
    \cup Tampered(held.token)
    \cup {jwt_encode(ForgedSub, e, SECRET_KEY) : e \in NearExps}
    \cup {jwt_encode(NoSub, now + 1, SECRET_KEY),
          jwt_encode(ForgedSub, now + 1, AttackerKey)}

\* The profile updates tried: with the token the client holds, any id of
\* the table, any email and any password or a null one (the salt the hash
\* draws matters only when there is a password to hash); and one with a
\* malformed token.
UpdateInputs ==
    {<<held.token, id, e, p, s>> :
        id \in UserIds, e \in Emails, p \in Passwords, s \in Salts}
    \cup {<<held.token, id, e, NoPassword, 1>> : id \in UserIds, e \in Emails}
    \cup {<<Garbage, id, ForgedSub, Pw1, 1>> : id \in UserIds}

\* What is wrong with a token, judged from its parts.
Defect(tbl, token, t) ==
    CASE token = NoToken -> "no_token"
      [] token.form = "garbage" -> "malformed"
      [] token.form = "jwt" /\ token.sig.key # SECRET_KEY -> "bad_signature"
      [] token.form = "jwt" /\ token.sig.key = SECRET_KEY
           /\ (token.sig.sub # token.sub \/ token.sig.exp # token.exp)
           -> "tampered"
      [] OTHER ->
           IF token.exp # NoExp /\ token.exp < t THEN "expired"
           ELSE IF token.sub = NoSub THEN "no_sub"
           ELSE IF \A i \in 1..Len(tbl) : tbl[i].email # token.sub
                THEN "no_account"
           ELSE "none"

ReadUsersMe(token) ==
    LET out == read_users_me(users, token, now)
    IN  /\ resp' = [op |-> "read_users_me",
                    defect |-> Defect(users, token, now),
                    exp_rel |-> ExpRel(token, now),
                    status |-> out.response.status,
                    body |-> out.response.body,
                    headers |-> out.response.headers]
        /\ log' = dispatch("GET", "/users/me", NoBody, out)
        /\ UNCHANGED <<users, now, held, reqvars>>

UpdateUserInfo(token, user_id, email, password, salt) ==
    LET r == update_user_info(users, token, user_id, email, password, salt, now)
        body == [email |-> email, password |-> password]
    IN  /\ users' = r.tbl
        /\ resp' = [op |-> "update_user_info",
                    defect |-> Defect(users, token, now),
                    status |-> r.out.response.status,
                    body |-> r.out.response.body,
                    headers |-> r.out.response.headers]
        /\ log' = dispatch("PUT", "/users/{user_id}", body, r.out)
        /\ UNCHANGED <<now, held, reqvars>>

----------------------------------------------------------------------------
(* Requests in flight: each inbound request runs as a task of its own.    *)

Reqs == 1..MaxReqs

NoArg     == [none |-> TRUE]
NoStudent == [id |-> 0]

\* A task that serves no request.
Idle ==
    [pc |-> "idle", kind |-> "none", token |-> NoToken, arg |-> NoArg,
     valid |-> FALSE, session |-> 0, authed |-> "pending", user |-> 0,
     row |-> NoStudent, status |-> 0, exit |-> "none"]

NoRequests == [r \in Reqs |-> Idle]

----------------------------------------------------------------------------
Init ==
    /\ users = <<>>
    /\ now = 0
    /\ held = [token |-> NoToken, uid |-> 0, iat |-> 0, delta |-> NoDelta]
    /\ resp = [op |-> "none"]
    /\ log = <<>>
    /\ students = {}
    /\ inflight = NoRequests
    /\ sessions = {}

\* Time passes between two requests: one second, or a whole token lifetime.
TickSteps == {1, ExpireSeconds}

Tick(d) ==
    /\ (now \div ExpireSeconds) + (now % ExpireSeconds) < MaxTicks
    /\ now' = now + d
    /\ UNCHANGED <<users, held, resp, log, reqvars>>

Next ==
    \/ \E d \in TickSteps : Tick(d)
    \/ \E e \in Emails, p \in Passwords : Login(e, p)
    \/ \E e \in Emails, p \in Passwords, n \in FullNames,
          s \in Salts : Register(e, p, n, s)
    \/ \E tok \in PresentableTokens : ReadUsersMe(tok)
    \/ \E in \in UpdateInputs :
          UpdateUserInfo(in[1], in[2], in[3], in[4], in[5])

Spec == Init /\ [][Next]_vars

----------------------------------------------------------------------------
(* create_access_token as a function of its arguments: any subject and    *)
(* any expires_delta, none included, at any time; and the decoding of the *)
(* token it returned.                                                     *)

Deltas == {NoDelta, 0, 1, 60, ExpireSeconds, 2 * ExpireSeconds}

CreateAccessToken(sub, expires_delta) ==
    /\ held' = [token |-> create_access_token(sub, expires_delta, now),
                uid |-> 0, iat |-> now, delta |-> expires_delta]
    /\ resp' = [op |-> "create_access_token"]
    /\ UNCHANGED <<users, now, log, reqvars>>

DecodeHeld ==
    /\ held.token # NoToken
    /\ resp' = [op |-> "jwt_decode",
                ok |-> jwt_decode(held.token, SECRET_KEY, now).ok]
    /\ UNCHANGED <<users, now, held, log, reqvars>>

NextToken ==
    \/ \E d \in TickSteps : Tick(d)
    \/ \E e \in Emails, d \in Deltas : CreateAccessToken(e, d)
    \/ DecodeHeld

SpecToken == Init /\ [][NextToken]_vars

----------------------------------------------------------------------------
(* verify_password and get_password_hash as functions of their arguments: *)
(* secrets of every length around the 72 bytes bcrypt takes, with one- and *)
(* two-byte characters at the cut.                                         *)

Rep(c, n) == [i \in 1..n |-> c]

\* "b", and two characters whose UTF-8 encodings share their first byte.
SuffixChars == {98, 233, 234}

RECURSIVE Suffixes(_)
Suffixes(n) ==
    IF n = 0 THEN {<<>>}
    ELSE LET S == Suffixes(n - 1)
         IN  S \cup {Append(x, c) : x \in {y \in S : Len(y) = n - 1},
                                    c \in SuffixChars}

Secrets ==
    Passwords \cup {<<>>}
    \cup {Rep(97, n) \o x : n \in {BcryptMaxBytes - 1, BcryptMaxBytes},
                            x \in Suffixes(MaxOver)}

InitHash ==
    /\ users = <<>>
    /\ now = 0
    /\ held = [token |-> NoToken, uid |-> 0, iat |-> 0, delta |-> NoDelta]
    /\ resp \in {[op |-> "secrets", s1 |-> a, s2 |-> b, salt |-> s] :
                    a \in Secrets, b \in Secrets, s \in Salts}
    /\ log = <<>>
    /\ students = {}
    /\ inflight = NoRequests
    /\ sessions = {}

\* hashed = get_password_hash(s2); verify_password(s1, hashed)
VerifyPassword ==
    /\ resp.op = "secrets"
    /\ LET hashed == get_password_hash(resp.s2, resp.salt)
       IN  resp' = [op |-> "verify_password", s1 |-> resp.s1, s2 |-> resp.s2,
                    hashed |-> hashed,
                    result |-> verify_password(resp.s1, hashed)]
    /\ UNCHANGED <<users, now, held, log, reqvars>>

NextHash == VerifyPassword

SpecHash == InitHash /\ [][NextHash]_vars

----------------------------------------------------------------------------
(* authenticate_user as a function of the users table and its arguments:  *)
(* tables whose rows hold a bcrypt hash, or a string that is none.         *)

\* What the hashed_password column may hold: hashes that get_password_hash
\* made, a plaintext password, and the empty string.
StoredHashes ==
    {get_password_hash(p, s) : p \in Passwords, s \in Salts}
    \cup {[scheme |-> "plain", salt |-> 0, digest |-> Utf8(Pw1)],
          [scheme |-> "", salt |-> 0, digest |-> <<>>]}

\* The tables of at most n rows with distinct emails.
RECURSIVE UserTables(_)
UserTables(n) ==
    IF n = 0 THEN {<<>>}
    ELSE LET T == UserTables(n - 1)
         IN  T \cup UNION {
                 {Append(t, NewUser(t, e, "Test User", h)) :
                     e \in {x \in Emails :
                               \A i \in 1..Len(t) : t[i].email # x},
                     h \in StoredHashes} :
                 t \in {x \in T : Len(x) = n - 1}}

InitAuth ==
    /\ users \in UserTables(MaxUsers)
    /\ now = 0
    /\ held = [token |-> NoToken, uid |-> 0, iat |-> 0, delta |-> NoDelta]
    /\ resp = [op |-> "none"]
    /\ log = <<>>
    /\ students = {}
    /\ inflight = NoRequests
    /\ sessions = {}

AuthenticateUser(email, password) ==
    /\ LET r == authenticate_user_call(users, email, password)
       IN  resp' = [op |-> "authenticate_user", email |-> email,
                    password |-> password, raised |-> r.raised,
                    user |-> r.user]
    /\ UNCHANGED <<users, now, held, log, reqvars>>

NextAuth == \E e \in Emails, p \in Passwords : AuthenticateUser(e, p)

SpecAuth == InitAuth /\ [][NextAuth]_vars

----------------------------------------------------------------------------
(* app/core/database.py: get_db *)

SessionIds == 1..MaxReqs

\* AsyncSessionLocal() with one module-level session handed to every caller.
AsyncSessionLocal_shared(open) == 1

\* AsyncSessionLocal(): a session object that did not exist before the
\* call (the least identity that no open session has).
AsyncSessionLocal(open) ==
    CHOOSE s \in SessionIds \ open : \A o \in SessionIds \ open : s <= o

\* get_db that closes the session only when the request was not cancelled.
get_db_exit_unless_cancelled(open, session, how) ==
    IF how = "cancelled" THEN open ELSE open \ {session}

\* The exit of "async with AsyncSessionLocal() as session": the session is
\* closed however the block is left (AsyncSession.__aexit__ shields the
\* close from the cancellation of the task).
get_db_exit(open, session, how) == open \ {session}

----------------------------------------------------------------------------
(* app/crud/student.py, app/models/study.py; the commits of crud/user.py  *)

StudentNos   == {"S1", "S2"}
StudentNames == {"Ann"}

\* select(Student).where(Student.id == student_id), scalar_one_or_none()
get_student(stu, id) ==
    IF \E x \in stu : x.id = id THEN CHOOSE x \in stu : x.id = id
    ELSE NoStudent

\* select(Student).where(Student.student_id == student_id)
get_student_by_student_id(stu, student_id) ==
    IF \E x \in stu : x.student_id = student_id
    THEN CHOOSE x \in stu : x.student_id = student_id
    ELSE NoStudent

\* The id of the next row of an integer primary key: one more than the
\* greatest id of the table.
NextRowId(stu) ==
    IF stu = {} THEN 1
    ELSE (CHOOSE x \in stu : \A y \in stu : y.id <= x.id).id + 1

\* db.add(user); db.commit() of create_user without the unique index.
insert_user_no_index(tbl, email, password, full_name, salt) ==
    [ok |-> TRUE, exc |-> "",
     tbl |-> Append(tbl, NewUser(tbl, email, full_name,
                                 get_password_hash(password, salt)))]

\* db.add(user); db.commit() of create_user: the INSERT fails with
\* IntegrityError when a row holds the email (unique=True on User.email).
insert_user(tbl, email, password, full_name, salt) ==
    IF \E i \in 1..Len(tbl) : tbl[i].email = email
    THEN [ok |-> FALSE, exc |-> "IntegrityError", tbl |-> tbl]
    ELSE [ok |-> TRUE, exc |-> "",
          tbl |-> Append(tbl, NewUser(tbl, email, full_name,
                                      get_password_hash(password, salt)))]

\* db.add(student); db.commit() of create_student: unique=True on
\* Student.student_id.
insert_student(stu, student_id, name) ==
    IF \E x \in stu : x.student_id = student_id
    THEN [ok |-> FALSE, exc |-> "IntegrityError", stu |-> stu]
    ELSE [ok |-> TRUE, exc |-> "",
          stu |-> stu \cup {[id |-> NextRowId(stu),
                             student_id |-> student_id, name |-> name,
                             created_at |-> "func.now()",
                             updated_at |-> "func.now()"]}]

\* student_in.model_dump(exclude_unset=True): the fields the body of the
\* PUT supplied (arg holds them next to the id of the path).
update_data(arg) == [f \in DOMAIN arg \ {"id"} |-> arg[f]]

\* The commit of update_student for the row the session loaded, after
\* setattr of every supplied field: the UPDATE sets the attributes that
\* changed on the loaded object; it raises StaleDataError when the row is
\* gone and IntegrityError when another row holds the new student_id.
update_student_row(stu, row, data) ==
    LET changed == {f \in DOMAIN data : data[f] # row[f]}
    IN  IF changed = {}
        THEN [ok |-> TRUE, exc |-> "", stu |-> stu]
        ELSE IF \A x \in stu : x.id # row.id
        THEN [ok |-> FALSE, exc |-> "StaleDataError", stu |-> stu]
        ELSE IF /\ "student_id" \in changed
                /\ \E x \in stu : /\ x.id # row.id
                                  /\ x.student_id = data.student_id
        THEN [ok |-> FALSE, exc |-> "IntegrityError", stu |-> stu]
        ELSE [ok |-> TRUE, exc |-> "",
              stu |-> {IF x.id = row.id
                       THEN [f \in DOMAIN x |->
                                IF f \in changed THEN data[f] ELSE x[f]]
                       ELSE x : x \in stu}]

\* db.delete(student); db.commit(): a DELETE that matches no row is only
\* warned about.
delete_student(stu, row) == {x \in stu : x.id # row.id}

\* response_model=StudentOut and response_model=List[StudentOut].
StudentOut ==
    [required |-> {"student_id", "name", "id", "created_at", "updated_at"},
     optional |-> {"grade", "major", "class_name"}]

----------------------------------------------------------------------------
(* app/api/v1/students.py and app/api/v1/basic.py, a request served from  *)
(* its dependencies to its response with no other request in between.     *)

\* A route with status_code=code: the status of the response the route
\* returns (an exception keeps its own).
with_status(out, code) ==
    IF out.raised \/ out.response.status # 200 THEN out
    ELSE [out EXCEPT !.response = [@ EXCEPT !.status = code]]

\* status_code=204: the response has no body, whatever the handler
\* returned.
no_content == [logs |-> <<>>, raised |-> FALSE,
               response |-> Http(204, NoBody, {})]

\* read_student and its response_model=StudentOut.
read_student(tbl, stu, token, id, t) ==
    LET cu == current_user_dep(tbl, token, t)
        row == get_student(stu, id)
    IN  IF ~cu.ok THEN cu.exc
        ELSE IF row = NoStudent
        THEN HTTPException(404, "student not found", {})
        ELSE serialize_response(StudentOut, success(row), <<>>)

\* create_new_student, create_student and response_model=StudentOut with
\* status_code=201: [out, stu].
create_new_student(tbl, stu, token, student_id, name, t) ==
    LET cu == current_user_dep(tbl, token, t)
    IN  IF ~cu.ok THEN [out |-> cu.exc, stu |-> stu]
        ELSE IF get_student_by_student_id(stu, student_id) # NoStudent
        THEN [out |-> HTTPException(400, "student_id already used", {}),
              stu |-> stu]
        ELSE LET ins == insert_student(stu, student_id, name)
             IN  IF ~ins.ok
                 THEN [out |-> ServerError(ins.exc), stu |-> stu]
                 ELSE [out |-> with_status(
                                 serialize_response(StudentOut,
                                     success(get_student_by_student_id(
                                                 ins.stu, student_id)),
                                     <<>>), 201),
                       stu |-> ins.stu]

\* update_student_info, update_student and response_model=StudentOut:
\* [out, stu]. data holds the fields the body supplied.
update_student_info(tbl, stu, token, id, data, t) ==
    LET cu == current_user_dep(tbl, token, t)
        row == get_student(stu, id)
    IN  IF ~cu.ok THEN [out |-> cu.exc, stu |-> stu]
        ELSE IF row = NoStudent
        THEN [out |-> HTTPException(404, "student not found", {}),
              stu |-> stu]
        ELSE IF /\ "student_id" \in DOMAIN data
                /\ data.student_id # row.student_id
                /\ get_student_by_student_id(stu, data.student_id)
                      # NoStudent
        THEN [out |-> HTTPException(400, "student_id already used", {}),
              stu |-> stu]
        ELSE LET upd == update_student_row(stu, row, data)
             IN  IF ~upd.ok
                 THEN [out |-> ServerError(upd.exc), stu |-> stu]
                 ELSE [out |-> serialize_response(StudentOut,
                                   success(get_student(upd.stu, id)), <<>>),
                       stu |-> upd.stu]

\* delete_student_info, delete_student and status_code=204: [out, stu].
delete_student_info(tbl, stu, token, id, t) ==
    LET cu == current_user_dep(tbl, token, t)
        row == get_student(stu, id)
    IN  IF ~cu.ok THEN [out |-> cu.exc, stu |-> stu]
        ELSE IF row = NoStudent
        THEN [out |-> HTTPException(404, "student not found", {}),
              stu |-> stu]
        ELSE [out |-> no_content, stu |-> delete_student(stu, row)]

\* response_model=R: every field of R has a default.
R == [required |-> {}, optional |-> {"code", "msg", "data"}]

\* check_database: what it returns when db.execute(text("SELECT 1"))
\* raises, and when it does not; the except clause catches every
\* Exception, so the coroutine never raises one.
check_database(probe_raises) ==
    IF probe_raises
    THEN [status |-> "error", error |-> "OperationalError"]
    ELSE [status |-> "ok", latency_ms |-> 0]

\* asyncio.gather(..., return_exceptions=True) over the one check: the
\* value check_database returned (exception tells whether the result is an
\* exception object, which a coroutine that raises none never gives).
gather_checks(probe_raises) ==
    [database |-> [exception |-> FALSE,
                   value |-> check_database(probe_raises)]]

\* health_check and its response_model=R: overall_status turns
\* "unhealthy" only for a result that is an exception; the test of
\* result.get("status") is commented out.
health_check(probe_raises, t) ==
    LET results == gather_checks(probe_raises)
        result  == results.database
        overall_status == IF result.exception THEN "unhealthy" ELSE "healthy"
        health_info ==
            [database |-> IF result.exception
                          THEN [status |-> "error", error |-> "exception"]
                          ELSE result.value]
        failed == IF probe_raises
                  THEN <<LogRec("ERROR", "Database health check failed",
                                [error |-> "OperationalError"])>>
                  ELSE <<>>
    IN  IF overall_status # "healthy"
        THEN serialize_response(R,
                 R_fail("Some dependencies are unhealthy", 503), failed)
        ELSE serialize_response(R,
                 R_ok([status |-> overall_status, timestamp |-> t,
                       uptime_seconds |-> 1, info |-> health_info]),
                 failed \o <<LogRec("INFO", "Health check passed",
                                    [status |-> overall_status])>>)

----------------------------------------------------------------------------
(* A request as a task: get_db, then get_current_user where the handler   *)
(* depends on it, then the handler from one await to the next, then the   *)
(* exit of get_db. A step is what runs between two suspension points.     *)

UsersEndpoints ==
    {"read_users_me", "read_user", "read_users", "update_user_info"}

StudentsEndpoints ==
    {"read_students", "read_student", "create_new_student",
     "update_student_info", "delete_student_info"}

\* The handlers that declare Depends(get_current_user), delete_student_info
\* left out.
ProtectedKinds_delete_open ==
    (UsersEndpoints \cup StudentsEndpoints) \ {"delete_student_info"}

\* The handlers that declare Depends(get_current_user).
ProtectedKinds == UsersEndpoints \cup StudentsEndpoints

\* The request leaves the application: with a response (returned, or made
\* from an HTTPException), with an exception no handler caught (500), or
\* cancelled, with no response at all.
Ret(req, status, how) ==
    [req EXCEPT !.pc = "exit", !.status = status, !.exit = how,
                !.token = NoToken, !.arg = NoArg, !.row = NoStudent,
                !.user = 0]

\* The handler returned `content` under response_model=model.
Returned(req, model, content) ==
    LET out == serialize_response(model, content, <<>>)
    IN  Ret(req, out.response.status,
            IF out.raised THEN "exception" ELSE "return")

Same(req, tbl, stu) == [req |-> req, tbl |-> tbl, stu |-> stu]

\* app/api/v1/users.py
users_handler(req, tbl, stu) ==
    CASE req.kind = "read_users_me" ->
           Same(Returned(req, UserOut, tbl[req.user]), tbl, stu)
      [] req.kind = "read_user" ->
           IF get_user(tbl, req.arg.user_id) = 0
           THEN Same(Ret(req, 404, "http_error"), tbl, stu)
           ELSE Same(Returned(req, UserOut, tbl[req.arg.user_id]),
                     tbl, stu)
      [] req.kind = "read_users" ->
           Same(Ret(req, 200, "return"), tbl, stu)
      [] req.kind = "update_user_info" /\ req.pc = "handler" ->
           IF ~may_update(req.user, req.arg.user_id)
           THEN Same(Ret(req, 403, "http_error"), tbl, stu)
           ELSE IF get_user(tbl, req.arg.user_id) = 0
           THEN Same(Ret(req, 404, "http_error"), tbl, stu)
           ELSE Same([req EXCEPT !.pc = "commit"], tbl, stu)
      [] req.kind = "update_user_info" /\ req.pc = "commit" ->
           LET upd == update_user(tbl, req.arg.user_id, req.arg.email,
                                  req.arg.password, req.arg.salt)
           IN  IF ~upd.ok
               THEN Same(Ret(req, 500, "exception"), tbl, stu)
               ELSE Same(Returned(req, UserOut,
                                  upd.tbl[req.arg.user_id]), upd.tbl, stu)

\* app/api/v1/auth.py: register, with create_user from its look-up to its
\* commit.
register_handler(req, tbl, stu) ==
    IF req.pc = "handler"
    THEN IF get_user_by_email(tbl, req.arg.email) # 0
         THEN Same(Ret(req, 400, "http_error"), tbl, stu)
         ELSE Same([req EXCEPT !.pc = "commit"], tbl, stu)
    ELSE LET ins == insert_user(tbl, req.arg.email, req.arg.password,
                                req.arg.full_name, req.arg.salt)
         IN  IF ~ins.ok
             THEN Same(Ret(req, 500, "exception"), tbl, stu)
             ELSE Same(Returned(req, UserOut,
                                success(ins.tbl[Len(ins.tbl)])),
                       ins.tbl, stu)

\* app/api/v1/students.py, with the crud function each handler calls.
students_handler(req, tbl, stu) ==
    CASE req.kind = "read_students" ->
           Same(Returned(req, StudentOut, success(stu)), tbl, stu)
      [] req.kind = "read_student" ->
           LET row == get_student(stu, req.arg.id)
           IN  IF row = NoStudent
               THEN Same(Ret(req, 404, "http_error"), tbl, stu)
               ELSE Same(Returned(req, StudentOut, success(row)),
                         tbl, stu)
      [] req.kind = "create_new_student" /\ req.pc \in {"handler", "crud"} ->
           IF get_student_by_student_id(stu, req.arg.student_id) # NoStudent
           THEN Same(Ret(req, 400, "http_error"), tbl, stu)
           ELSE Same([req EXCEPT
                         !.pc = IF req.pc = "handler" THEN "crud"
                                ELSE "commit"], tbl, stu)
      [] req.kind = "create_new_student" /\ req.pc = "commit" ->
           LET ins == insert_student(stu, req.arg.student_id, req.arg.name)
           IN  IF ~ins.ok
               THEN Same(Ret(req, 500, "exception"), tbl, stu)
               ELSE Same(Returned(req, StudentOut,
                             success(get_student_by_student_id(
                                         ins.stu, req.arg.student_id))),
                         tbl, ins.stu)
      [] req.kind = "update_student_info" /\ req.pc = "handler" ->
           LET row == get_student(stu, req.arg.id)
           IN  IF row = NoStudent
               THEN Same(Ret(req, 404, "http_error"), tbl, stu)
               ELSE Same([req EXCEPT !.pc = "crud", !.row = row],
                         tbl, stu)
      [] req.kind = "update_student_info" /\ req.pc = "crud" ->
           LET data == update_data(req.arg)
           IN  IF /\ "student_id" \in DOMAIN data
                  /\ data.student_id # req.row.student_id
                  /\ get_student_by_student_id(stu, data.student_id)
                        # NoStudent
               THEN Same(Ret(req, 400, "http_error"), tbl, stu)
               ELSE Same([req EXCEPT !.pc = "commit"], tbl, stu)
      [] req.kind = "update_student_info" /\ req.pc = "commit" ->
           LET upd == update_student_row(stu, req.row, update_data(req.arg))
           IN  IF ~upd.ok
               THEN Same(Ret(req, 500, "exception"), tbl, stu)
               ELSE Same(Returned(req, StudentOut,
                                  success(get_student(upd.stu, req.row.id))),
                         tbl, upd.stu)
      [] req.kind = "delete_student_info" /\ req.pc = "handler" ->
           LET row == get_student(stu, req.arg.id)
           IN  IF row = NoStudent
               THEN Same(Ret(req, 404, "http_error"), tbl, stu)
               ELSE Same([req EXCEPT !.pc = "commit", !.row = row],
                         tbl, stu)
      [] req.kind = "delete_student_info" /\ req.pc = "commit" ->
           Same(Ret(req, 204, "return"), tbl, delete_student(stu, req.row))

run_handler(req, tbl, stu) ==
    IF req.kind \in UsersEndpoints THEN users_handler(req, tbl, stu)
    ELSE IF req.kind \in StudentsEndpoints THEN students_handler(req, tbl, stu)
    ELSE register_handler(req, tbl, stu)

\* The requests that arrive: every users and students endpoint with the
\* token the client holds and with a string that is no token, GET
\* /users/me also with no token and with a tampered one, and registrations.
RequestInputs ==
    LET In(k, t, a) == [kind |-> k, token |-> t, arg |-> a]
        Tokens == {held.token, Garbage}
    IN  {In(k, t, NoArg) : k \in {"read_users_me", "read_users",
                                  "read_students"}, t \in Tokens}
        \cup {In("read_users_me", t, NoArg) :
                 t \in {NoToken} \cup Tampered(held.token)}
        \cup {In("read_user", t, [user_id |-> 1]) : t \in Tokens}
        \cup {In("update_user_info", t,
                 [user_id |-> id, email |-> "b@x.com", password |-> Pw2,
                  salt |-> 1]) : t \in Tokens, id \in {1, 2}}
        \cup {In("register", NoToken,
                 [email |-> e, password |-> Pw1, full_name |-> "Test User",
                  salt |-> 1]) : e \in Emails}
        \cup {In(k, t, [id |-> 1]) :
                 k \in {"read_student", "delete_student_info"}, t \in Tokens}
        \cup {In("create_new_student", t, [student_id |-> no, name |-> n]) :
                 t \in Tokens, no \in StudentNos, n \in StudentNames}
        \cup {In("update_student_info", t, [id |-> 1, student_id |-> "S2"]) :
                 t \in Tokens}

\* The students that exist or that a request in flight may still create.
Creating ==
    {r \in Reqs : inflight[r].kind = "create_new_student"
                    /\ inflight[r].pc \notin {"exit", "closed"}}

Begin(r, in) ==
    /\ inflight[r].pc = "idle"
    /\ in.kind = "create_new_student"
          => Cardinality(students) + Cardinality(Creating) < MaxStudents
    /\ inflight' = [inflight EXCEPT ![r] =
                       [Idle EXCEPT !.pc = "start", !.kind = in.kind,
                                    !.token = in.token, !.arg = in.arg,
                                    !.valid = (in.token = held.token)]]
    /\ UNCHANGED <<users, now, held, resp, log, students, sessions>>

\* Depends(get_db) up to its yield.
GetDb(r) ==
    /\ inflight[r].pc = "start"
    /\ SessionIds \ sessions # {}
    /\ LET s == AsyncSessionLocal(sessions)
       IN  /\ sessions' = sessions \cup {s}
           /\ inflight' = [inflight EXCEPT ![r] =
                  [@ EXCEPT !.session = s,
                            !.pc = IF inflight[r].kind \in ProtectedKinds
                                   THEN "auth" ELSE "handler"]]
    /\ UNCHANGED <<users, now, held, resp, log, students>>

\* Depends(get_current_user), behind reusable_oauth2.
GetCurrentUser(r) ==
    /\ inflight[r].pc = "auth"
    /\ LET cu == current_user_dep(users, inflight[r].token, now)
       IN  inflight' = [inflight EXCEPT ![r] =
              IF cu.ok
              THEN [@ EXCEPT !.authed = "ok", !.user = cu.user,
                             !.pc = "handler"]
              ELSE Ret([@ EXCEPT !.authed = "failed"],
                       cu.exc.response.status, "http_error")]
    /\ UNCHANGED <<users, now, held, resp, log, students, sessions>>

Handler(r) ==
    /\ inflight[r].pc \in {"handler", "crud", "commit"}
    /\ LET o == run_handler(inflight[r], users, students)
       IN  /\ inflight' = [inflight EXCEPT ![r] = o.req]
           /\ users' = o.tbl
           /\ students' = o.stu
    /\ UNCHANGED <<now, held, resp, log, sessions>>

\* The client disconnects while the task waits: CancelledError is raised
\* at the await, and what the session did not commit is rolled back.
Cancel(r) ==
    /\ inflight[r].pc \in {"auth", "handler", "crud", "commit"}
    /\ inflight' = [inflight EXCEPT ![r] = Ret(@, 0, "cancelled")]
    /\ UNCHANGED <<users, now, held, resp, log, students, sessions>>

\* get_db after its yield.
CloseSession(r) ==
    /\ inflight[r].pc = "exit"
    /\ sessions' = get_db_exit(sessions, inflight[r].session,
                               inflight[r].exit)
    /\ inflight' = [inflight EXCEPT ![r] =
                       [Idle EXCEPT !.pc = "closed",
                                    !.exit = inflight[r].exit]]
    /\ UNCHANGED <<users, now, held, resp, log, students>>

\* The task ends.
Finish(r) ==
    /\ inflight[r].pc = "closed"
    /\ inflight' = [inflight EXCEPT ![r] = Idle]
    /\ UNCHANGED <<users, now, held, resp, log, students, sessions>>

\* One account and the token its login returned: the state after
\* Register("a@x.com", Pw1) and Login("a@x.com", Pw1) at time 0.
InitReq ==
    /\ users = create_user(<<>>, "a@x.com", Pw1, "Test User", 1)
    /\ now = 0
    /\ held = [token |-> create_access_token("a@x.com", ExpireSeconds, 0),
               uid |-> 1, iat |-> 0, delta |-> ExpireSeconds]
    /\ resp = [op |-> "none"]
    /\ log = <<>>
    /\ students = {}
    /\ inflight = NoRequests
    /\ sessions = {}

Step(r) ==
    \/ GetDb(r)
    \/ GetCurrentUser(r)
    \/ Handler(r)
    \/ CloseSession(r)
    \/ Finish(r)

NextReq ==
    \/ \E r \in Reqs, in \in RequestInputs : Begin(r, in)
    \/ \E r \in Reqs : Step(r)
    \/ \E r \in Reqs : Cancel(r)

SpecReq == InitReq /\ [][NextReq]_vars

\* The requests that write the users table: registrations, and profile
\* updates of the account the held token names.
AccountInputs ==
    {in \in RequestInputs :
        \/ in.kind = "register"
        \/ in.kind = "update_user_info" /\ in.token = held.token
                                          /\ in.arg.user_id = 1}

NextAccounts ==
    \/ \E r \in Reqs, in \in AccountInputs : Begin(r, in)
    \/ \E r \in Reqs : Step(r)
    \/ \E r \in Reqs : Cancel(r)

SpecAccounts == InitReq /\ [][NextAccounts]_vars

\* The requests that the sessions are followed under: GET /users/me with
\* the held token (it returns) and the registration of one email (an
\* exception that nothing catches while the email is free, an HTTP error
\* once it is taken).
SessionInputs ==
    {in \in RequestInputs :
        \/ in.kind = "read_users_me" /\ in.token = held.token
        \/ in.kind = "register" /\ in.arg.email = "b@x.com"}

NextSession ==
    \/ \E r \in Reqs, in \in SessionInputs : Begin(r, in)
    \/ \E r \in Reqs : Step(r)
    \/ \E r \in Reqs : Cancel(r)

\* Every task that can take a step eventually takes one: the event loop
\* resumes each task when what it awaits is done.
SpecSession ==
    InitReq /\ [][NextSession]_vars /\ \A r \in Reqs : WF_vars(Step(r))

----------------------------------------------------------------------------
(* The students endpoints and the health check, one request after         *)
(* another, for the client that holds the token of the one account.       *)

RowIds == 1..MaxRowId

\* The bodies of PUT /students/{id}: every subset of the fields student_id
\* and name, with a value for each.
UpdateNames == StudentNames \cup {"Bob"}

StudentUpdates ==
    {update_data([id |-> 0])}
    \cup {[student_id |-> no] : no \in StudentNos}
    \cup {[name |-> n] : n \in UpdateNames}
    \cup {[student_id |-> no, name |-> n] :
             no \in StudentNos, n \in UpdateNames}

ClientTokens == {held.token, Garbage}

\* The ids whose DELETE the client has seen answered 204 so far.
Deleted == IF "deleted" \in DOMAIN resp THEN resp.deleted ELSE {}

ReadStudent(token, id) ==
    LET out == read_student(users, students, token, id, now)
    IN  /\ resp' = [op |-> "read_student", id |-> id, deleted |-> Deleted,
                    authed |-> current_user_dep(users, token, now).ok,
                    status |-> out.response.status,
                    body |-> out.response.body,
                    headers |-> out.response.headers]
        /\ log' = dispatch("GET", "/students/{student_id}", NoBody, out)
        /\ UNCHANGED <<users, now, held, students, inflight, sessions>>

CreateNewStudent(token, student_id, name) ==
    LET r == create_new_student(users, students, token, student_id, name,
                                now)
        body == [student_id |-> student_id, name |-> name]
    IN  /\ get_student_by_student_id(students, student_id) = NoStudent
              => NextRowId(students) <= MaxRowId
        /\ students' = r.stu
        /\ resp' = [op |-> "create_new_student", student_id |-> student_id,
                    authed |-> current_user_dep(users, token, now).ok,
                    before |-> students, deleted |-> Deleted,
                    status |-> r.out.response.status,
                    body |-> r.out.response.body,
                    headers |-> r.out.response.headers]
        /\ log' = dispatch("POST", "/students/", body, r.out)
        /\ UNCHANGED <<users, now, held, inflight, sessions>>

UpdateStudentInfo(token, id, data) ==
    LET r == update_student_info(users, students, token, id, data, now)
    IN  /\ students' = r.stu
        /\ resp' = [op |-> "update_student_info", id |-> id, data |-> data,
                    authed |-> current_user_dep(users, token, now).ok,
                    before |-> students, deleted |-> Deleted,
                    status |-> r.out.response.status,
                    body |-> r.out.response.body,
                    headers |-> r.out.response.headers]
        /\ log' = dispatch("PUT", "/students/{student_id}", data, r.out)
        /\ UNCHANGED <<users, now, held, inflight, sessions>>

DeleteStudentInfo(token, id) ==
    LET r == delete_student_info(users, students, token, id, now)
    IN  /\ students' = r.stu
        /\ resp' = [op |-> "delete_student_info", id |-> id,
                    authed |-> current_user_dep(users, token, now).ok,
                    before |-> students,
                    deleted |-> IF r.out.response.status = 204
                                THEN Deleted \cup {id} ELSE Deleted,
                    status |-> r.out.response.status,
                    body |-> r.out.response.body,
                    headers |-> r.out.response.headers]
        /\ log' = dispatch("DELETE", "/students/{student_id}", NoBody, r.out)
        /\ UNCHANGED <<users, now, held, inflight, sessions>>

\* GET /health while the database answers, and while it does not.
HealthCheck(probe_raises) ==
    LET out == health_check(probe_raises, now)
    IN  /\ resp' = [op |-> "health_check", probe_raises |-> probe_raises,
                    deleted |-> Deleted,
                    status |-> out.response.status,
                    body |-> out.response.body,
                    headers |-> out.response.headers]
        /\ log' = dispatch("GET", "/health", NoBody, out)
        /\ UNCHANGED <<users, now, held, students, inflight, sessions>>

NextStudents ==
    \/ \E tok \in ClientTokens, id \in RowIds : ReadStudent(tok, id)
    \/ \E tok \in ClientTokens, no \in StudentNos, n \in StudentNames :
          CreateNewStudent(tok, no, n)
    \/ \E tok \in ClientTokens, id \in RowIds, data \in StudentUpdates :
          UpdateStudentInfo(tok, id, data)
    \/ \E tok \in ClientTokens, id \in RowIds : DeleteStudentInfo(tok, id)
    \/ \E b \in BOOLEAN : HealthCheck(b)

SpecStudents == InitReq /\ [][NextStudents]_vars

----------------------------------------------------------------------------
(* Password changes and logins of the one account, one request after      *)
(* another, with short passwords and with passwords longer than the 72    *)
(* bytes bcrypt takes.                                                    *)

ChangePasswords ==
    Passwords \cup {Rep(97, BcryptMaxBytes) \o <<c>> : c \in {98, 233}}

NextPassword ==
    \/ \E e \in Emails, p \in ChangePasswords : Login(e, p)
    \/ \E e \in Emails, p \in ChangePasswords, salt \in Salts :
          UpdateUserInfo(held.token, 1, e, p, salt)

SpecPassword == InitReq /\ [][NextPassword]_vars

----------------------------------------------------------------------------
(* The claims *)

Unauthorized ==
    Http(401, [detail |-> "Could not validate credentials"], Bearer)

RespHttp == Http(resp.status, resp.body, resp.headers)

\* C1: a login with an unknown email, or with a wrong password for a known
\* one, is answered 401 and carries no access token.
C1_FailedLoginIs401 ==
    (resp.op = "login" /\ ~resp.auth)
        => (resp.status = 401 /\ "access_token" \notin DOMAIN resp.body)

\* C2: the login of a registered account returns a token whose subject is
\* the login email, and GET /users/me with the token a client got from
\* login returns, at any time before the token's expiry, the account that
\* has that email.
C2_TokenReturnsLoginAccount ==
    /\ (resp.op = "login" /\ resp.auth)
          => (resp.status = 200 /\ resp.body.access_token.sub = resp.username)
    /\ (held.token # NoToken /\ now < held.token.exp)
          => LET r == read_users_me(users, held.token, now).response
             IN  r.status = 200 /\ r.body.email = held.token.sub

\* C3: get_current_user answers every defect of the list (expired, badly
\* signed, tampered, malformed, no sub claim, no account for the subject)
\* with one and the same 401 response: for the protected requests made,
\* and for every token that could be presented in the current state.
ListedDefects ==
    {"expired", "bad_signature", "tampered", "malformed", "no_sub",
     "no_account"}

C3_UniformUnauthorized ==
    /\ (resp.op \in {"read_users_me", "update_user_info"}
            /\ resp.defect \in ListedDefects)
          => RespHttp = Unauthorized
    /\ \A tok \in PresentableTokens :
          Defect(users, tok, now) \in ListedDefects
             => LET cu == get_current_user(users, tok, now)
                IN  ~cu.ok /\ cu.exc.response = Unauthorized

C3_Witness ==
    /\ resp.op = "read_users_me"
    /\ resp.defect = "no_account"
    /\ Len(users) > 0
    /\ RespHttp = Unauthorized

\* C4: a token is accepted only while its exp is strictly after the
\* current time: once the clock has reached the exp of the token a client
\* got from login, a request that carries it is refused as unauthorized.
C4_ExpNotAfterNowRejected ==
    (held.token # NoToken /\ held.token.exp <= now)
        => read_users_me(users, held.token, now).response = Unauthorized

\* C5: create_access_token sets exp = now + expires_delta for every
\* expires_delta it is given, zero included, so that a token issued with a
\* zero lifetime never validates.
C5_ExpIsNowPlusDelta ==
    /\ held.delta # NoDelta => held.token.exp = held.iat + held.delta
    /\ (held.token # NoToken /\ held.delta = 0)
          => ~jwt_decode(held.token, SECRET_KEY, now).ok

\* C6: no step changes the email of an account.
C6_EmailImmutable ==
    [][\A i \in 1..Len(users) : users'[i].email = users[i].email]_vars

\* C7: a token a client got from login resolves, at every time before its
\* expiry, to the account it was issued for.
C7_TokenSurvivesUpdates ==
    (held.token # NoToken /\ now < held.token.exp)
        => get_current_user(users, held.token, now)
              = [ok |-> TRUE, user |-> held.uid]

\* C8: a login with an unknown email and a login with a wrong password for
\* a known email get the same response, and authenticate_user returns the
\* same absence value for both.
C8_UniformLoginFailure ==
    \A e1 \in Emails, e2 \in Emails, p1 \in Passwords, p2 \in Passwords :
        (/\ get_user_by_email(users, e1) = 0
         /\ get_user_by_email(users, e2) # 0
         /\ ~verify_password(
                p2, users[get_user_by_email(users, e2)].hashed_password))
        => /\ authenticate_user(users, e1, p1) = 0
           /\ authenticate_user(users, e2, p2) = 0
           /\ login(users, e1, p1, now).response
                 = login(users, e2, p2, now).response

C8_Witness ==
    /\ resp.op = "login"
    /\ resp.known
    /\ ~resp.auth
    /\ \E e \in Emails : get_user_by_email(users, e) = 0

\* C9: in no environment does a written log record spell out a password
\* that a request submitted.
C9_NoPasswordInLogs ==
    \A env \in AppEnvs :
        \A i \in 1..Len(Written(env, log)) :
            PasswordsIn(Written(env, log)[i]) = {}

\* C10: the registration of a free email is answered 200 with the created
\* account: its email is the submitted one and there is no hashed_password
\* in it.
C10_RegisterReturnsAccount ==
    (resp.op = "register" /\ resp.created)
        => /\ resp.status = 200
           /\ "email" \in DOMAIN resp.body
           /\ resp.body.email = resp.email
           /\ "hashed_password" \notin DOMAIN resp.body

\* C11: registering an email that an account already uses is answered with
\* the conflict error, which is not the unauthorized error, and the users
\* table (the set of accounts and every field of every account) stays as
\* it was: for the registrations made, and for every registration of a
\* taken email that could be made in the current state.
Conflict == Http(400, [detail |-> "email already registered"], {})

C11_DuplicateRegistrationConflict ==
    /\ (resp.op = "register" /\ ~resp.created)
          => (RespHttp = Conflict /\ RespHttp # Unauthorized)
    /\ \A e \in Emails, p \in Passwords, n \in FullNames, s \in Salts :
          get_user_by_email(users, e) # 0
             => /\ register(users, e, p, n, s).response = Conflict
                /\ create_user(users, e, p, n, s) = users

C11_Witness ==
    /\ resp.op = "register"
    /\ ~resp.created
    /\ RespHttp = Conflict
    /\ Len(users) >= 1

\* C13: the hashed_password of every account is what get_password_hash
\* returns for some password and salt (the bcrypt hash of the truncated
\* UTF-8 encoding), and the stored string is no plaintext password.
C13_StoredHashNotPlaintext ==
    \A i \in 1..Len(users) :
        LET h == users[i].hashed_password
        IN  /\ \E p \in Passwords, s \in Salts :
                  h = bcrypt_hashpw(Truncate72(Utf8(p)), s)
            /\ \A p \in Passwords : hash_string(h) # p

C13_Witness ==
    /\ resp.op = "update_user_info"
    /\ resp.status = 200
    /\ Len(users) = 2
    /\ users[1].hashed_password # users[2].hashed_password

\* C19: a token that differs from the issued one in its subject, its exp
\* or its signature, or that was signed with another key, resolves to no
\* account: whatever get_current_user accepts carries the server's
\* signature over exactly its subject and exp.
Altered(token) ==
    IF token.form # "jwt" THEN {}
    ELSE {[token EXCEPT !.sub = s] : s \in Subjects \ {token.sub}}
         \cup {[token EXCEPT !.exp = e] :
                  e \in {token.exp + 1, token.exp + ExpireSeconds, NoExp}}
         \cup {[token EXCEPT !.sig = Sign(AttackerKey, token.sub, token.exp)]}
         \cup {[token EXCEPT !.sig = Sign(SECRET_KEY, s, token.exp)] :
                  s \in Subjects \ {token.sub}}
         \cup {jwt_encode(token.sub, e, AttackerKey) :
                  e \in {token.exp, now + 1, NoExp}}

C19_AlteredTokenRejected ==
    /\ \A tok \in Altered(held.token) \cup PresentableTokens :
          (tok.form = "jwt" /\ tok.sig # Sign(SECRET_KEY, tok.sub, tok.exp))
             => /\ ~get_current_user(users, tok, now).ok
                /\ read_users_me(users, tok, now).response = Unauthorized
    /\ (resp.op \in {"read_users_me", "update_user_info"}
            /\ resp.defect \in {"tampered", "bad_signature"})
          => RespHttp = Unauthorized

C19_Witness ==
    /\ resp.op = "read_users_me"
    /\ resp.defect = "tampered"
    /\ RespHttp = Unauthorized
    /\ Len(users) = 2
    /\ get_current_user(users, held.token, now).ok

\* C18: for every subject and every positive lifetime, the token that
\* create_access_token returns decodes, with the server's key, at the
\* time of issue and at any time before its expiry, to exactly the subject
\* passed in.
C18_TokenRoundTrip ==
    /\ \A sub \in Emails, d \in Deltas :
          d > 0 => LET payload == jwt_decode(create_access_token(sub, d, now),
                                             SECRET_KEY, now)
                   IN  payload.ok /\ payload.sub = sub
    /\ (held.token # NoToken /\ held.delta > 0 /\ now < held.iat + held.delta)
          => jwt_decode(held.token, SECRET_KEY, now).ok
    /\ (resp.op = "jwt_decode" /\ held.delta > 0
            /\ now < held.iat + held.delta)
          => resp.ok

C18_Witness ==
    /\ resp.op = "jwt_decode"
    /\ resp.ok
    /\ held.delta = 60
    /\ held.iat = 0
    /\ now = 1

\* C20 as stated: for all distinct secrets s1 # s2, of any length,
\* verify_password(s1, get_password_hash(s2)) is false.
C20_DistinctSecretsRejected ==
    (resp.op = "verify_password" /\ resp.s1 # resp.s2) => ~resp.result

\* C20, amended: for all secrets whose UTF-8 encodings differ within their
\* first 72 bytes, verify_password(s1, get_password_hash(s2)) is false.
C20_DistinctTruncationsRejected ==
    (resp.op = "verify_password"
        /\ Truncate72(Utf8(resp.s1)) # Truncate72(Utf8(resp.s2)))
       => ~resp.result

C20_Witness ==
    /\ resp.op = "verify_password"
    /\ Len(Utf8(resp.s1)) > BcryptMaxBytes
    /\ Len(Utf8(resp.s2)) > BcryptMaxBytes
    /\ Truncate72(Utf8(resp.s1)) # Truncate72(Utf8(resp.s2))
    /\ ~resp.result

\* C12: in every reachable state, whatever registrations and profile
\* updates ran, one after another or interleaved, no two accounts have the
\* same email.
C12_EmailsUnique ==
    \A i \in 1..Len(users), j \in 1..Len(users) :
        i # j => users[i].email # users[j].email

\* Two registrations of one free email both passed the look-up and both
\* reached their commit; one row was added.
C12_Witness ==
    /\ Len(users) = 2
    /\ \A r \in {1, 2} : /\ inflight[r].kind = "register"
                         /\ inflight[r].exit = "exception"

\* C14: a request to a users or students endpoint is in its handler (at
\* any of the handler's statements) only after get_current_user succeeded
\* for it, and no step of a request that get_current_user did not accept
\* changes the users or the students table.
HandlerPcs == {"handler", "crud", "commit"}

C14_Gate ==
    \A r \in Reqs :
        (inflight[r].kind \in UsersEndpoints \cup StudentsEndpoints
            /\ inflight[r].pc \in HandlerPcs)
           => inflight[r].authed = "ok"

C14_Frame ==
    \A r \in Reqs :
        (/\ inflight'[r] # inflight[r]
         /\ \/ inflight[r].kind \in UsersEndpoints \cup StudentsEndpoints
            \/ inflight'[r].kind \in UsersEndpoints \cup StudentsEndpoints
         /\ inflight[r].authed # "ok"
         /\ inflight'[r].authed # "ok")
           => (users' = users /\ students' = students)

C14_HandlersBehindGetCurrentUser == [][C14_Gate' /\ C14_Frame]_vars

C14_Witness ==
    \E r \in Reqs :
        /\ inflight[r].kind = "delete_student_info"
        /\ inflight[r].authed = "failed"
        /\ inflight[r].status = 401
        /\ students # {}

\* C15: every session that get_db opened is eventually closed, however
\* the request ended (returned, HTTP error, unhandled exception,
\* cancelled), and when no request holds a session none is open.
C15_SessionsClosed ==
    /\ []((\A r \in Reqs : inflight[r].session = 0) => sessions = {})
    /\ \A s \in SessionIds : (s \in sessions) ~> (s \notin sessions)

C15_Witness ==
    /\ \E r \in Reqs : inflight[r].pc = "closed"
                         /\ inflight[r].exit = "cancelled"
    /\ \E r \in Reqs : inflight[r].pc = "closed"
                         /\ inflight[r].exit = "exception"
    /\ sessions = {}

\* C16: every open session is the session of exactly one request in
\* flight, and no two requests in flight have the same session.
C16_SessionPerRequest ==
    /\ \A r1 \in Reqs, r2 \in Reqs :
          (r1 # r2 /\ inflight[r1].session # 0)
             => inflight[r1].session # inflight[r2].session
    /\ \A s \in sessions :
          Cardinality({r \in Reqs : inflight[r].session = s}) = 1

\* Two requests served as the same account, both in their handlers.
C16_Witness ==
    \A r \in {1, 2} :
        /\ inflight[r].kind = "read_users_me"
        /\ inflight[r].pc = "handler"
        /\ inflight[r].user = 1
        /\ inflight[r].session # 0

C21_OwnHashVerifies ==
    /\ (resp.op = "verify_password" /\ resp.s1 = resp.s2) => resp.result
    /\ \A s \in Secrets, salt \in Salts :
          verify_password(s, get_password_hash(s, salt))

\* A secret two bytes over the ceiling, cut inside its last character.
C21_Witness ==
    /\ resp.op = "verify_password"
    /\ resp.s1 = resp.s2
    /\ Len(Utf8(resp.s1)) > BcryptMaxBytes
    /\ Utf8(resp.s1)[BcryptMaxBytes] > 127
    /\ resp.result

\* C22: authenticate_user never raises; it returns the account exactly
\* when a row has the email and the password verifies against the hash the
\* row stores (the stored string is the bcrypt hash of the password's first
\* 72 bytes under the salt it embeds), and None in every other case, a
\* stored string that is no bcrypt hash included.
Verifies(password, hashed) ==
    /\ bcrypt_wellformed(hashed)
    /\ hashed = bcrypt_hashpw(Truncate72(Utf8(password)), hashed.salt)

C22_AuthenticateNeverRaises ==
    /\ resp.op = "authenticate_user"
          => LET u == get_user_by_email(users, resp.email)
             IN  /\ resp.raised = ""
                 /\ resp.user = IF u # 0 /\ Verifies(resp.password,
                                          users[u].hashed_password)
                                THEN u ELSE 0
    /\ \A e \in Emails, p \in Passwords :
          LET r == authenticate_user_call(users, e, p)
          IN  r.raised = "" /\ r.user = authenticate_user(users, e, p)

\* The account exists and its stored hash is no bcrypt hash.
C22_Witness ==
    /\ resp.op = "authenticate_user"
    /\ get_user_by_email(users, resp.email) # 0
    /\ ~bcrypt_wellformed(
           users[get_user_by_email(users, resp.email)].hashed_password)
    /\ resp.raised = ""
    /\ resp.user = 0

\* C23: a login, successful or not, and a request that only resolves its
\* caller (GET /users/me) leave the users table and the students table as
\* they were; and the server keeps no record of the tokens it issued: what
\* get_current_user accepts is decided by the token's own parts, the clock
\* and the users table, so that a token the server's key signs is accepted
\* whether login issued it or not.
C23_LoginWritesNothing ==
    /\ [][resp'.op \in {"login", "read_users_me"}
             => (users' = users /\ students' = students)]_vars
    /\ [](\A tok \in PresentableTokens :
             get_current_user(users, tok, now).ok
                <=> Defect(users, tok, now) = "none")

\* A failed login of a known account, after a successful one.
C23_Witness ==
    /\ resp.op = "login"
    /\ resp.known
    /\ ~resp.auth
    /\ held.token # NoToken
    /\ Len(users) = 2

\* C25: an authorized PUT /students/{id} for a stored student, carrying
\* any subset of the fields (and no student_id that another student
\* holds), is answered 200 with that id and the supplied values; the
\* stored student has exactly the supplied fields set, its id and its
\* other fields are as before, and so is every other student.
Applies(row, data) ==
    [f \in DOMAIN row |-> IF f \in DOMAIN data THEN data[f] ELSE row[f]]

C25_PartialUpdate ==
    (/\ resp.op = "update_student_info"
     /\ resp.authed
     /\ get_student(resp.before, resp.id) # NoStudent
     /\ \A x \in resp.before :
           ("student_id" \in DOMAIN resp.data /\ x.id # resp.id)
              => x.student_id # resp.data.student_id)
       => /\ resp.status = 200
          /\ resp.body.id = resp.id
          /\ \A f \in DOMAIN resp.data : resp.body[f] = resp.data[f]
          /\ students =
                {IF x.id = resp.id THEN Applies(x, resp.data) ELSE x :
                    x \in resp.before}

\* C24: an authorized DELETE /students/{id} of a stored student is
\* answered 204 and the student is stored no more; of an id that no
\* student has, it is answered 404 and changes nothing; and once a DELETE
\* of an id was answered 204, every later GET /students/{id} for that id
\* is answered 404.
C24_DeletedStaysGone ==
    /\ (resp.op = "delete_student_info" /\ resp.authed)
          => IF get_student(resp.before, resp.id) # NoStudent
             THEN /\ resp.status = 204
                  /\ students = {x \in resp.before : x.id # resp.id}
             ELSE /\ resp.status = 404
                  /\ students = resp.before
    /\ \A id \in Deleted :
          read_student(users, students, held.token, id, now)
             .response.status = 404
    /\ (resp.op = "read_student" /\ resp.authed /\ resp.id \in Deleted)
          => resp.status = 404

\* C29: no two stored students have the same student_id; a create, and an
\* update that changes the student_id, to a value that another student
\* holds is answered 400 and leaves the students as they were; an update
\* that keeps the student's own student_id is accepted (answered 200 and
\* stored).
C29_StudentIdUnique ==
    /\ \A x \in students, y \in students :
          x.student_id = y.student_id => x = y
    /\ (resp.op = "create_new_student" /\ resp.authed
           /\ get_student_by_student_id(resp.before, resp.student_id)
                 # NoStudent)
          => (resp.status = 400 /\ students = resp.before)
    /\ (resp.op = "update_student_info" /\ resp.authed
           /\ get_student(resp.before, resp.id) # NoStudent
           /\ "student_id" \in DOMAIN resp.data)
          => IF \E x \in resp.before : /\ x.id # resp.id
                                       /\ x.student_id = resp.data.student_id
             THEN resp.status = 400 /\ students = resp.before
             ELSE get_student(resp.before, resp.id).student_id
                     = resp.data.student_id
                  => /\ resp.status = 200
                     /\ students =
                           {IF x.id = resp.id THEN Applies(x, resp.data)
                            ELSE x : x \in resp.before}

\* C30: whenever the database probe fails (SELECT 1 raises), health_check
\* answers with the failure response, msg "Some dependencies are
\* unhealthy" and code 503, and not with the overall status "healthy".
C30_ProbeFailureReported ==
    (resp.op = "health_check" /\ resp.probe_raises)
       => /\ resp.body.code = 503
          /\ resp.body.msg = "Some dependencies are unhealthy"

\* C27: whatever requests run, a step changes a field of an account only
\* as the commit of a PUT /users/{user_id} whose caller get_current_user
\* resolved to that same account; and a PUT /users/{user_id} whose caller
\* resolved to another id is refused with 403 and changes no account.
C27_OnlyOwnerUpdates ==
    [][/\ \A i \in 1..Len(users) :
             users'[i] # users[i]
                => \E r \in Reqs :
                      /\ inflight[r].kind = "update_user_info"
                      /\ inflight[r].pc = "commit"
                      /\ inflight[r].authed = "ok"
                      /\ inflight[r].user = i
                      /\ inflight[r].arg.user_id = i
                      /\ inflight'[r].pc = "exit"
       /\ \A r \in Reqs :
             (/\ inflight[r].kind = "update_user_info"
              /\ inflight[r].pc = "handler"
              /\ inflight[r].user # inflight[r].arg.user_id
              /\ inflight'[r] # inflight[r]
              /\ inflight'[r].exit # "cancelled")
                => /\ inflight'[r].pc = "exit"
                   /\ inflight'[r].status = 403
                   /\ users' = users]_vars

\* The caller of account 1 was refused the update of account 2, which
\* exists.
C27_Witness ==
    /\ Len(users) = 2
    /\ \E r \in Reqs : /\ inflight[r].kind = "update_user_info"
                        /\ inflight[r].pc = "exit"
                        /\ inflight[r].status = 403
    /\ users[2].email = "b@x.com"

\* C26: of two registrations of one free email that run concurrently,
\* however their look-ups and inserts interleave, one creates the account
\* and the other ends with the conflict error: no two accounts have the
\* same email, and a registration that leaves the application without
\* having created an account was answered 400, never ended by an
\* exception that nothing handled.
C26_ConcurrentDuplicateConflict ==
    [][/\ \A i \in 1..Len(users'), j \in 1..Len(users') :
             i # j => users'[i].email # users'[j].email
       /\ \A r \in Reqs :
             (/\ inflight[r].kind = "register"
              /\ inflight[r].pc \in HandlerPcs
              /\ inflight'[r].pc = "exit"
              /\ inflight'[r].exit # "cancelled"
              /\ Len(users') = Len(users))
                => /\ inflight'[r].status = 400
                   /\ inflight'[r].exit = "http_error"]_vars

\* The password in the body of the latest request, as the middleware saw
\* it.
SubmittedPassword ==
    SelectSeq(log, LAMBDA r : r.msg = "Request body")[1].args.body.password

\* The step is a profile update that was answered 200.
UpdateSucceeds ==
    /\ resp'.op = "update_user_info"
    /\ resp'.status = 200
    /\ <<users, resp, log>>' # <<users, resp, log>>

\* C28 as stated: after a profile update with a new password succeeds,
\* login with the new password succeeds and login with the previous
\* password (any other password that the account accepted before) fails;
\* and this lasts until the next password change, no other step changing
\* a stored hash.
C28_NewPasswordReplacesOld ==
    [][/\ UpdateSucceeds
             => LET i == resp'.body.id
                    new == SubmittedPassword'
                IN  /\ login(users', users'[i].email, new, now')
                          .response.status = 200
                    /\ \A q \in ChangePasswords :
                          (q # new
                             /\ verify_password(q, users[i].hashed_password))
                            => authenticate_user(users', users'[i].email, q)
                                  = 0
       /\ ~UpdateSucceeds
             => \A i \in 1..Len(users) :
                   users'[i].hashed_password = users[i].hashed_password]_vars

\* C28, amended: the same, for a new password whose UTF-8 encoding
\* differs from the previous one within the first 72 bytes.
C28_NewPasswordReplacesOldPrefix ==
    [][/\ UpdateSucceeds
             => LET i == resp'.body.id
                    new == SubmittedPassword'
                IN  /\ login(users', users'[i].email, new, now')
                          .response.status = 200
                    /\ \A q \in ChangePasswords :
                          (Truncate72(Utf8(q)) # Truncate72(Utf8(new))
                             /\ verify_password(q, users[i].hashed_password))
                            => authenticate_user(users', users'[i].email, q)
                                  = 0
       /\ ~UpdateSucceeds
             => \A i \in 1..Len(users) :
                   users'[i].hashed_password = users[i].hashed_password]_vars

\* A password longer than 72 bytes has replaced a short one.
C28_Witness ==
    /\ resp.op = "update_user_info"
    /\ resp.status = 200
    /\ Len(Utf8(SubmittedPassword)) > BcryptMaxBytes
    /\ verify_password(SubmittedPassword, users[1].hashed_password)
    /\ ~verify_password(Pw1, users[1].hashed_password)
    /\ ~verify_password(Pw2, users[1].hashed_password)
====
